---- MODULE Spec2Model ----
(***************************************************************************)
(* The quiz-attempt lifecycle of snapquiz2: the relational store           *)
(* (quizzes, questions, quiz_attempts, student_answers, profiles), the     *)
(* teacher's quiz creation, activation and deletion, the student           *)
(* dashboard's join check, attempts list and results view, the quiz-link   *)
(* page QuizAccess, the UsernameSetup form that stands before both, and    *)
(* the QuizTaking controller (initializeQuiz, the countdown effect,        *)
(* handleAnswerChange, the question cursor and handleSubmitQuiz).          *)
(*                                                                         *)
(* Granularity: the code between two awaits of an async function is one    *)
(* step.  A store call is one step with its request, its effect and its    *)
(* response, because the caller is suspended meanwhile; the attempt        *)
(* update of handleSubmitQuiz is split into the store's write and the      *)
(* caller's resumption, so that the countdown can tick in between.  Every  *)
(* store call can fail (ok = FALSE).  React state updates made in one      *)
(* step are committed together (React 18 batching).  The countdown effect  *)
(* of a render runs after the commit, as a step of its own or at the       *)
(* latest before the next render, and calls the handleSubmitQuiz that its  *)
(* render created.  An execution of handleSubmitQuiz that is still in      *)
(* flight when the component unmounts is not followed further.             *)
(*                                                                         *)
(* Time is in seconds; the wall clock advances by Pass alone and is not     *)
(* tied to the countdown's callbacks, which may fire late.  Text is a       *)
(* sequence of one-character strings.                                      *)
(***************************************************************************)
EXTENDS Integers, Sequences, FiniteSets, TLC

VARIABLES
    quizzes,          \* rows of public.quizzes
    questions,        \* rows of public.questions
    quiz_attempts,    \* rows of public.quiz_attempts
    student_answers,  \* rows of public.student_answers
    profiles,         \* rows of public.profiles (students)
    now,              \* wall clock, seconds
    teacher,          \* the teacher's QuizCreation screen
    tab               \* per browser tab: StudentDashboard + QuizTaking state

store == <<quizzes, questions, quiz_attempts, student_answers, profiles>>
vars ==
    <<quizzes, questions, quiz_attempts, student_answers, profiles, now,
      teacher, tab>>

----------------------------------------------------------------------------
(* Bounds of the model *)

MaxSubmits == 2     \* Submit bodies one controller starts, at most
MaxEdits == 2       \* answer changes in one controller, at most
MaxNow == 30        \* the clock stops advancing on its own here
MaxLen == 2         \* length of the texts compared exhaustively, at most
MaxSeconds == 2     \* seconds the clock is followed before and after the hour
MaxTyped == 3       \* length of the usernames tried exhaustively, at most

Tabs == DOMAIN tab
StudentId == "s1"
Durations == {0, 1}

----------------------------------------------------------------------------
(* Values *)

None == << >>
Some(x) == <<x>>
IsSome(m) == m # << >>
The(m) == m[1]

SecondsPerMinute == 60
SecondsPerHour == 3600
MinutesPerHour == 60
MinUsernameLength == 3
MaxUsernameLength == 20

\* What the generation service returned to QuizCreation (generatedQuestions)
Draft ==
    << [question_type |-> "multiple_choice", correct_answer |-> <<"A">>],
       [question_type |-> "true_false",
        correct_answer |-> <<"T", "r", "u", "e">>],
       [question_type |-> "fill_in_the_blank",
        correct_answer |-> <<"4", "2">>] >>

\* What a student types or selects
Inputs == { <<" ", "a", " ">>, <<"T", "R", "U", "E">> }


\* Every text of at most MaxLen characters over a letter in both cases and
\* the space
CompareAlphabet == {"a", "A", " "}
Texts == UNION { [1..k -> CompareAlphabet] : k \in 0..MaxLen }

\* part_003:5  the question_type enum
QuestionTypes ==
    {"multiple_choice", "theory", "fill_in_the_blank", "true_false"}

\* The codes generate_quiz_code() can draw, and what a student types
GeneratedCodes == { <<"K", "7", "Q", "X", "2", "A">> }
TypedCodes == { <<"k", "7", "q", "x", "2", "a">> }

----------------------------------------------------------------------------
(* Text: String.prototype.toLowerCase / toUpperCase / trim *)

UpperLetters == <<"A", "E", "K", "Q", "R", "T", "U", "X">>
LowerLetters == <<"a", "e", "k", "q", "r", "t", "u", "x">>

ToLowerCaseChar(ch) ==
    IF \E i \in 1..Len(UpperLetters) : UpperLetters[i] = ch
    THEN LowerLetters[CHOOSE i \in 1..Len(UpperLetters) : UpperLetters[i] = ch]
    ELSE ch

ToUpperCaseChar(ch) ==
    IF \E i \in 1..Len(LowerLetters) : LowerLetters[i] = ch
    THEN UpperLetters[CHOOSE i \in 1..Len(LowerLetters) : LowerLetters[i] = ch]
    ELSE ch

ToLowerCase(s) == [i \in 1..Len(s) |-> ToLowerCaseChar(s[i])]
ToUpperCase(s) == [i \in 1..Len(s) |-> ToUpperCaseChar(s[i])]

IsWhiteSpace(ch) == ch = " "

RECURSIVE TrimStart(_)
TrimStart(s) ==
    IF s # << >> /\ IsWhiteSpace(Head(s)) THEN TrimStart(Tail(s)) ELSE s

RECURSIVE TrimEnd(_)
TrimEnd(s) ==
    IF s # << >> /\ IsWhiteSpace(s[Len(s)])
    THEN TrimEnd(SubSeq(s, 1, Len(s) - 1))
    ELSE s

Trim(s) == TrimEnd(TrimStart(s))

\* the comparison without the two trim() calls
IsCorrectUntrimmed(studentAnswer, correct_answer) ==
    ToLowerCase(studentAnswer) = ToLowerCase(correct_answer)

\* QuizTaking.tsx:165
IsCorrect(studentAnswer, correct_answer) ==
    Trim(ToLowerCase(studentAnswer)) = Trim(ToLowerCase(correct_answer))

----------------------------------------------------------------------------
(* Numbers: a JavaScript number is finite or not (NaN, Infinity) *)

Num(v) == [finite |-> TRUE, v |-> v]
NaN == [finite |-> FALSE, v |-> 0]

\* Math.round(p / q): the nearest integer, halves upwards
MathRound(p, q) == (2 * p + q) \div (2 * q)

\* QuizTaking.tsx:177  Math.round((score / questions.length) * 100)
FinalScore(score, length) ==
    IF length = 0 THEN NaN ELSE Num(MathRound(100 * score, length))

\* QuizTaking.tsx:135-137, with times in seconds
TimeTakenMinutes(startTime, endTime) ==
    MathRound(endTime - startTime, SecondsPerMinute)

\* JSON.stringify of a number in a request body: NaN and Infinity become null
ToJson(x) == IF x.finite THEN Some(x.v) ELSE None

----------------------------------------------------------------------------
(* The store *)

QuizById(id) == { q \in quizzes : q.id = id }
ProfileById(id) == CHOOSE p \in profiles : p.id = id
QuestionsOf(quizId) == { q \in questions : q.quiz_id = quizId }
AttemptById(id) == { a \in quiz_attempts : a.id = id }

MaxId(rows) == IF rows = {} THEN 0
               ELSE CHOOSE m \in { r.id : r \in rows } :
                        \A r \in rows : r.id <= m

\* quiz_attempts without the constraint of part_003:61
AttemptUniqueDropped(quiz_id, student_id) == TRUE

\* part_003:61  UNIQUE(quiz_id, student_id)
AttemptUnique(quiz_id, student_id) ==
    ~ \E a \in quiz_attempts : a.quiz_id = quiz_id /\ a.student_id = student_id

\* part_003:53  quiz_id REFERENCES quizzes(id)
AttemptInsertAllowed(quiz_id, student_id) ==
    /\ QuizById(quiz_id) # {}
    /\ AttemptUnique(quiz_id, student_id)

\* part_003:65-72  student_answers has the two foreign keys and no
\* uniqueness constraint over (attempt_id, question_id)
AnswerInsertAllowed(rows) ==
    \A r \in rows :
        /\ AttemptById(r.attempt_id) # {}
        /\ \E q \in questions : q.id = r.question_id

\* part_003:92-93, 105-112  what a student's SELECT can see
QuizVisible(q) == q.is_active
QuestionVisible(q) == \E z \in quizzes : z.id = q.quiz_id /\ z.is_active

\* part_003:163-174  BEFORE INSERT trigger set_quiz_code
set_quiz_code(quiz_code, generated) ==
    IF quiz_code = None THEN Some(generated) ELSE quiz_code

\* The questions of a quiz a student can see, as ids by order_index
RECURSIVE OrderedFrom(_, _)
OrderedFrom(rows, i) ==
    IF rows = {} THEN << >>
    ELSE LET here == { r \in rows : r.order_index = i }
         IN  (IF here = {} THEN << >>
              ELSE <<CHOOSE r \in here : TRUE>>) \o OrderedFrom(rows \ here, i + 1)

\* the question rows selected with every column
SelectQuestionRows(quizId) ==
    OrderedFrom({ q \in QuestionsOf(quizId) : QuestionVisible(q) }, 0)

SelectQuestions(quizId) ==
    LET rows == { q \in QuestionsOf(quizId) : QuestionVisible(q) }
        seq  == OrderedFrom(rows, 0)
    IN  [i \in 1..Len(seq) |->
            [id |-> seq[i].id, question_type |-> seq[i].question_type,
             order_index |-> seq[i].order_index]]

----------------------------------------------------------------------------
(* The QuizTaking component and the dashboard around it *)

\* QuizTaking.tsx:32-39  the component's initial state
Unmounted ==
    [mounted |-> FALSE, ipc |-> "none", quizData |-> None,
     questionsData |-> << >>,
     quiz |-> None, questions |-> << >>, currentQuestionIndex |-> 0,
     answers |-> {}, attemptId |-> None, timeLeft |-> 0,
     loading |-> TRUE, submitting |-> FALSE,
     effect |-> None,
     runs |-> << >>, started |-> 0, edits |-> 0, timerCalls |-> 0,
     timerStarted |-> 0, guardReturned |-> FALSE]

\* QuizAccess.tsx:30-35  the quiz-link page's initial state
NoAccess ==
    [quizCode |-> None, pc |-> "idle", profile |-> None, loading |-> TRUE,
     quiz |-> None, existingAttempt |-> None, error |-> "none",
     isStarting |-> FALSE, renderedAt |-> 0]

\* UsernameSetup.tsx:17-18  the form's initial state; loading is pc # "idle"
NoSetup == [pc |-> "idle", username |-> << >>]

\* QuizTaking.tsx:663-669, 709-713  StudentDashboard's initial state, with the
\* toast on show (its title, and the time or the minutes its description
\* names), for the student signed in with profile; the effect of the first
\* render calls fetchAttempts
StudentDashboardState(profile) ==
    [activeView |-> "dashboard", selectedQuizId |-> None,
     selectedAttemptId |-> None, attempts |-> {},
     fetchAttempts |-> IsSome(profile),
     toast |-> "none", description |-> None,
     c |-> Unmounted, access |-> NoAccess, profile |-> profile,
     setup |-> NoSetup]

\* The profile the auth context holds for the signed-in student who has
\* chosen a username
SignedIn ==
    [id |-> StudentId, username |-> Some(<<"a", "b", "_", "1", "2">>)]

\* QuizTaking.tsx:835-838  the dashboard is shown again, with a toast
Dashboard(d, toast) ==
    [d EXCEPT !.activeView = "dashboard", !.selectedQuizId = None,
              !.toast = toast, !.description = None, !.c = Unmounted]

\* QuizTaking.tsx:835-838, QuizAccess.tsx:147  QuizTaking's onBack, as its
\* host passes it
OnBack(d) ==
    IF d.activeView = "taking"
    THEN [d EXCEPT !.activeView = "info", !.c = Unmounted]
    ELSE Dashboard(d, d.toast)

\* QuizTaking.tsx:796-801, QuizAccess.tsx:130-132  QuizTaking's onCompleted:
\* handleQuizCompleted of the dashboard, or on the quiz-link page
\* navigate('/'), which shows a new StudentDashboard
OnCompleted(d) ==
    IF d.activeView = "taking"
    THEN [StudentDashboardState(d.profile) EXCEPT !.toast = d.toast]
    ELSE [Dashboard(d, d.toast) EXCEPT !.fetchAttempts = TRUE]

\* The empty store, a teacher on QuizCreation's review step with
\* generatedQuestions, and the student's tabs on the dashboard
InitWith(generatedQuestions, tabs) ==
    /\ quizzes = {}
    /\ questions = {}
    /\ quiz_attempts = {}
    /\ student_answers = {}
    /\ profiles = {SignedIn}
    /\ now = 0
    /\ teacher = [view |-> "create", quizId |-> None,
                  generatedQuestions |-> generatedQuestions]
    /\ tab = [t \in tabs |-> StudentDashboardState(Some(SignedIn))]

----------------------------------------------------------------------------
(* The clock *)

\* One second passes, near the hour
Second ==
    /\ now < SecondsPerHour + MaxSeconds
    /\ now' = now + 1
    /\ UNCHANGED <<store, teacher, tab>>

\* Half a minute passes
Pass ==
    /\ now + SecondsPerMinute \div 2 <= MaxNow
    /\ now' = now + SecondsPerMinute \div 2
    /\ UNCHANGED <<store, teacher, tab>>

----------------------------------------------------------------------------
(* The teacher: QuizCreation.saveQuiz, toggleQuizStatus, the backfill *)

\* TeacherDashboard.tsx:429-446  the quiz insert of saveQuiz
SaveQuizInsertQuiz(duration, ok) ==
    /\ teacher.view = "create"
    /\ quizzes = {}
    /\ IF ok
       THEN /\ quizzes' = quizzes \cup
                  {[id |-> MaxId(quizzes) + 1,
                    total_questions |-> Len(teacher.generatedQuestions),
                    duration_minutes |-> duration,
                    start_time |-> None, end_time |-> None,
                    is_active |-> FALSE,
                    quiz_code |-> The(set_quiz_code(Some(<< >>),
                                       CHOOSE g \in GeneratedCodes : TRUE)),
                    created_at |-> now]}
            /\ teacher' = [teacher EXCEPT !.view = "saving",
                                          !.quizId = Some(MaxId(quizzes) + 1)]
       ELSE UNCHANGED <<quizzes, teacher>>
    /\ UNCHANGED <<questions, quiz_attempts, student_answers, profiles,
                   now, tab>>

\* TeacherDashboard.tsx:448-482  the question batch insert of saveQuiz;
\* onQuizCreated or the catch: the teacher is back on a screen with the list
SaveQuizInsertQuestions(ok) ==
    /\ teacher.view = "saving"
    /\ IF ok
       THEN questions' = questions \cup
               { [id |-> <<The(teacher.quizId), i - 1>>,
                  quiz_id |-> The(teacher.quizId),
                  question_type |-> teacher.generatedQuestions[i].question_type,
                  correct_answer |->
                      teacher.generatedQuestions[i].correct_answer,
                  order_index |-> i - 1] :
                 i \in 1..Len(teacher.generatedQuestions) }
       ELSE UNCHANGED questions
    /\ teacher' = [teacher EXCEPT !.view = "dashboard", !.quizId = None]
    /\ UNCHANGED <<quizzes, quiz_attempts, student_answers, profiles,
                   now, tab>>

\* part_003:242-245 and migration 20250715060523: the backfill of empty codes
BackfillQuizCodes ==
    /\ \E q \in quizzes : q.quiz_code = << >>
    /\ \E g \in GeneratedCodes :
          quizzes' = { IF q.quiz_code = << >>
                       THEN [q EXCEPT !.quiz_code = g] ELSE q : q \in quizzes }
    /\ UNCHANGED <<questions, quiz_attempts, student_answers, profiles,
                   now, teacher, tab>>

CascadeDropped(rows, orphans) == rows

\* part_003:39, 53, 67-68  ON DELETE CASCADE: the rows whose parent is gone
\* go with it
Cascade(rows, orphans) == rows \ orphans

\* TeacherDashboard.tsx:72-99  deleteQuiz, once the teacher has confirmed
DeleteQuiz(quizId, ok) ==
    LET attempts ==
            Cascade(quiz_attempts,
                    { a \in quiz_attempts : a.quiz_id = quizId })
        kept == Cascade(questions, { q \in questions : q.quiz_id = quizId })
    IN  /\ teacher.view = "dashboard"
        /\ QuizById(quizId) # {}
        /\ IF ok
           THEN /\ quizzes' = quizzes \ QuizById(quizId)
                /\ questions' = kept
                /\ quiz_attempts' = attempts
                /\ student_answers' =
                      Cascade(student_answers,
                              { r \in student_answers :
                                  \/ ~ \E a \in attempts : a.id = r.attempt_id
                                  \/ ~ \E q \in kept : q.id = r.question_id })
           ELSE UNCHANGED <<quizzes, questions, quiz_attempts,
                            student_answers>>
        /\ UNCHANGED <<profiles, now, teacher, tab>>

\* part_000:71-94  toggleQuizStatus
ToggleQuizStatus(quizId, ok) ==
    /\ teacher.view = "dashboard"
    /\ \E q \in quizzes :
          /\ q.id = quizId
          /\ IF ok
             THEN quizzes' = (quizzes \ {q}) \cup
                                {[q EXCEPT !.is_active = ~ q.is_active]}
             ELSE UNCHANGED quizzes
    /\ UNCHANGED <<questions, quiz_attempts, student_answers, profiles,
                   now, teacher, tab>>

----------------------------------------------------------------------------
(* StudentDashboard.handleJoinQuiz *)

\* QuizTaking.tsx:728-780  the outcome of the join checks
JoinDecision(typed, okQuiz, okAttempt) ==
    LET found == { q \in quizzes : /\ q.quiz_code = ToUpperCase(typed)
                                   /\ q.is_active
                                   /\ QuizVisible(q) /\ okQuiz }
        quiz == CHOOSE q \in found : TRUE
        existingAttempt ==
            { a \in quiz_attempts : /\ a.quiz_id = quiz.id
                                    /\ a.student_id = StudentId
                                    /\ okAttempt }
    IN  IF found = {}
        THEN [reason |-> "Quiz Not Found", description |-> None,
              quizId |-> None]
        ELSE IF IsSome(quiz.start_time) /\ The(quiz.start_time) > now
        THEN [reason |-> "Quiz Not Available", description |-> quiz.start_time,
              quizId |-> None]
        ELSE IF IsSome(quiz.end_time) /\ The(quiz.end_time) < now
        THEN [reason |-> "Quiz Expired", description |-> quiz.end_time,
              quizId |-> None]
        ELSE IF existingAttempt # {}
        THEN [reason |-> "Already Attempted", description |-> None,
              quizId |-> None]
        ELSE [reason |-> "admitted", description |-> None,
              quizId |-> Some(quiz.id)]

\* QuizTaking.tsx:41-43, 782-783, 831-842, QuizAccess.tsx:126-127, 144-152
\* the host shows QuizTaking for quizId: QuizTaking is mounted and its first
\* effect calls initializeQuiz
\* the zero check without its test of quiz
ZeroCheckUnloaded(c) == c.timeLeft = 0

\* QuizTaking.tsx:48  else if (timeLeft === 0 && quiz)
ZeroCheck(c) == c.timeLeft = 0 /\ IsSome(c.quiz)

Mount(d, activeView, quizId) ==
    LET c == [Unmounted EXCEPT !.mounted = TRUE, !.ipc = "fetchQuiz"]
    IN  [d EXCEPT !.activeView = activeView, !.selectedQuizId = Some(quizId),
                  !.c = IF ~ (c.timeLeft > 0) /\ ZeroCheck(c)
                        THEN [c EXCEPT !.effect =
                                 Some([submitting |-> c.submitting,
                                       answers |-> c.answers,
                                       attemptId |-> c.attemptId,
                                       questions |-> c.questions,
                                       quiz |-> c.quiz])]
                        ELSE c]

UsernameGateOpen(profile) == FALSE

\* QuizTaking.tsx:826-829, QuizAccess.tsx:138-141  UsernameSetup is shown in
\* place of the screen
UsernameGate(profile) == IsSome(profile) /\ ~ IsSome(The(profile).username)

\* QuizTaking.tsx:715-794
HandleJoinQuiz(t, typed, okQuiz, okAttempt) ==
    /\ tab[t].activeView = "dashboard"
    /\ ~ UsernameGate(tab[t].profile)
    /\ LET d == JoinDecision(typed, okQuiz, okAttempt)
       IN  tab' = [tab EXCEPT ![t] =
                     IF IsSome(d.quizId)
                     THEN Mount([@ EXCEPT !.toast = "none",
                                          !.description = None],
                                "quiz", The(d.quizId))
                     ELSE [@ EXCEPT !.toast = d.reason,
                                    !.description = d.description]]
    /\ UNCHANGED <<store, now, teacher>>

\* QuizTaking.tsx:671-707  the response of fetchAttempts; when two calls are
\* in flight the later response is the one that stays
FetchAttempts(t, ok) ==
    /\ tab[t].fetchAttempts
    /\ tab' = [tab EXCEPT ![t] =
                  IF ok
                  THEN [@ EXCEPT !.fetchAttempts = FALSE,
                                 !.attempts =
                                     { a \in quiz_attempts :
                                         a.student_id = The(tab[t].profile).id }]
                  ELSE [@ EXCEPT !.fetchAttempts = FALSE,
                                 !.toast = "Failed to fetch quiz attempts",
                                 !.description = None]]
    /\ UNCHANGED <<store, now, teacher>>

EmbargoedThroughTheHour(completed_at, at) ==
    at - completed_at <= SecondsPerHour

\* QuizTaking.tsx:808-810  hoursPassed < 1, for times in seconds
Embargoed(completed_at, at) == at - completed_at < SecondsPerHour

\* QuizTaking.tsx:812  Math.ceil(60 - hoursPassed * 60)
RemainingMinutes(completed_at, at) ==
    MinutesPerHour
    - (((at - completed_at) * MinutesPerHour) \div SecondsPerHour)

\* QuizTaking.tsx:803-824, 990-997  the View Results button of a completed
\* attempt of the list
ViewResults(t, attemptId) ==
    LET d == tab[t]
        attempt == CHOOSE a \in d.attempts : a.id = attemptId
    IN  /\ d.activeView = "dashboard"
        /\ ~ UsernameGate(d.profile)
        /\ \E a \in d.attempts : a.id = attemptId /\ a.is_completed
        /\ tab' = [tab EXCEPT ![t] =
                      IF Embargoed(The(attempt.completed_at), now)
                      THEN [@ EXCEPT !.toast = "Results Not Available",
                                     !.description =
                                         Some(RemainingMinutes(
                                             The(attempt.completed_at), now))]
                      ELSE [@ EXCEPT !.selectedAttemptId = Some(attemptId),
                                     !.activeView = "results"]]
        /\ UNCHANGED <<store, now, teacher>>

\* QuizTaking.tsx:844-854  QuizResults' onBack
ResultsBack(t) ==
    /\ tab[t].activeView = "results"
    /\ tab' = [tab EXCEPT ![t].activeView = "dashboard",
                          ![t].selectedAttemptId = None]
    /\ UNCHANGED <<store, now, teacher>>

\* Index.tsx:325-339, 409-456  useQuizManagement(userId).joinQuizByCode
JoinQuizByCode(quizCode, userId, okQuiz, okAttempt) ==
    LET found == { q \in quizzes : /\ q.quiz_code = ToUpperCase(quizCode)
                                   /\ QuizVisible(q) /\ okQuiz }
        quiz == CHOOSE q \in found : TRUE
        existingAttempt ==
            { a \in quiz_attempts : /\ a.quiz_id = quiz.id
                                    /\ Some(a.student_id) = userId
                                    /\ okAttempt }
    IN  IF Cardinality(found) # 1
        THEN [success |-> FALSE, message |-> "Quiz not found or invalid code",
              description |-> None]
        ELSE IF ~ quiz.is_active
        THEN [success |-> FALSE, message |-> "Quiz is not currently active",
              description |-> None]
        ELSE IF IsSome(quiz.start_time) /\ The(quiz.start_time) > now
        THEN [success |-> FALSE, message |-> "Quiz will be available from",
              description |-> quiz.start_time]
        ELSE IF IsSome(quiz.end_time) /\ The(quiz.end_time) < now
        THEN [success |-> FALSE, message |-> "Quiz expired on",
              description |-> quiz.end_time]
        ELSE IF IsSome(userId) /\ existingAttempt # {}
        THEN [success |-> FALSE,
              message |-> "You have already attempted this quiz",
              description |-> None]
        ELSE [success |-> TRUE, message |-> "none", description |-> None]

----------------------------------------------------------------------------
(* QuizAccess: the page of the link <origin>/quiz/<code> *)

\* The page commits a render at the current time
Rendered(a) == [a EXCEPT !.renderedAt = now]

\* QuizAccess.tsx:26-41  the student opens the link: the page mounts and its
\* effect calls the fetchQuizInfo of the first render, which closes over that
\* render's profile
OpenQuizLink(t, quizCode, profile) ==
    /\ tab[t].activeView = "dashboard"
    /\ tab' = [tab EXCEPT ![t] =
                 [StudentDashboardState(profile) EXCEPT
                    !.activeView = "info",
                    !.access = Rendered([NoAccess EXCEPT
                                            !.quizCode = Some(quizCode),
                                            !.pc = "fetchQuiz",
                                            !.profile = profile])]]
    /\ UNCHANGED <<store, now, teacher>>

\* The auth context delivers the profile after the page has mounted
ProfileLoaded(t) ==
    /\ tab[t].activeView = "info"
    /\ tab[t].profile = None
    /\ tab' = [tab EXCEPT ![t].profile = Some(ProfileById(StudentId)),
                          ![t].access = Rendered(@)]
    /\ UNCHANGED <<store, now, teacher>>

\* QuizAccess.tsx:46-65, 78-80  fetchQuizInfo up to the attempt query
FetchQuizInfo(t, ok) ==
    LET a == tab[t].access
        found == { q \in quizzes : /\ q.quiz_code = ToUpperCase(The(a.quizCode))
                                   /\ QuizVisible(q) /\ ok }
        quizData == CHOOSE q \in found : TRUE
    IN  /\ tab[t].activeView = "info" /\ a.pc = "fetchQuiz"
        /\ tab' = [tab EXCEPT ![t].access = Rendered(
                     IF Cardinality(found) # 1
                     THEN [a EXCEPT !.pc = "idle", !.loading = FALSE,
                                    !.error = "Quiz not found"]
                     ELSE IF IsSome(a.profile)
                     THEN [a EXCEPT !.pc = "fetchAttempt",
                                    !.quiz = Some(quizData)]
                     ELSE [a EXCEPT !.pc = "idle", !.loading = FALSE,
                                    !.quiz = Some(quizData)])]
        /\ UNCHANGED <<store, now, teacher>>

\* QuizAccess.tsx:66-74, 78-80  the attempt query of fetchQuizInfo, whose error
\* is not looked at
FetchExistingAttempt(t, ok) ==
    LET a == tab[t].access
        attemptData == { x \in quiz_attempts :
                            /\ x.quiz_id = The(a.quiz).id
                            /\ x.student_id = The(a.profile).id
                            /\ ok }
    IN  /\ tab[t].activeView = "info" /\ a.pc = "fetchAttempt"
        /\ tab' = [tab EXCEPT ![t].access = Rendered(
                     [a EXCEPT !.pc = "idle", !.loading = FALSE,
                               !.existingAttempt =
                                   IF attemptData = {} THEN None
                                   ELSE Some(CHOOSE x \in attemptData : TRUE)])]
        /\ UNCHANGED <<store, now, teacher>>

\* QuizAccess.tsx:186-189, 232  canStart, as the render at time at computed it
CanStart(a, at) ==
    LET quiz == The(a.quiz)
    IN  /\ quiz.is_active
        /\ IF IsSome(quiz.start_time) THEN The(quiz.start_time) <= at ELSE TRUE
        /\ IF IsSome(quiz.end_time) THEN The(quiz.end_time) > at ELSE TRUE
        /\ ~ IsSome(a.existingAttempt)

\* QuizAccess.tsx:154-184, 329-343  the Start Quiz button is on the screen and
\* enabled
StartButton(d) ==
    /\ d.activeView = "info"
    /\ ~ UsernameGate(d.profile)
    /\ ~ d.access.loading /\ d.access.error = "none" /\ IsSome(d.access.quiz)
    /\ CanStart(d.access, d.access.renderedAt)
    /\ ~ d.access.isStarting

\* QuizAccess.tsx:83-128  the outcome of handleStartQuiz's checks on the
\* page's quiz and existingAttempt
StartDecision(d) ==
    LET quiz == The(d.access.quiz)
    IN  IF ~ (IsSome(d.access.quiz) /\ IsSome(d.profile))
        THEN [reason |-> "none", description |-> None, quizId |-> None]
        ELSE IF ~ quiz.is_active
        THEN [reason |-> "Quiz Not Active", description |-> None,
              quizId |-> None]
        ELSE IF IsSome(quiz.start_time) /\ The(quiz.start_time) > now
        THEN [reason |-> "Quiz Not Available", description |-> quiz.start_time,
              quizId |-> None]
        ELSE IF IsSome(quiz.end_time) /\ The(quiz.end_time) < now
        THEN [reason |-> "Quiz Expired", description |-> quiz.end_time,
              quizId |-> None]
        ELSE IF IsSome(d.access.existingAttempt)
        THEN [reason |-> "Already Attempted", description |-> None,
              quizId |-> None]
        ELSE [reason |-> "admitted", description |-> None,
              quizId |-> Some(quiz.id)]

\* QuizAccess.tsx:83-128
HandleStartQuiz(t) ==
    /\ StartButton(tab[t])
    /\ LET d == StartDecision(tab[t])
       IN  tab' = [tab EXCEPT ![t] =
                     IF IsSome(d.quizId)
                     THEN Mount([@ EXCEPT !.access.isStarting = TRUE,
                                          !.access.renderedAt = now],
                                "taking", The(d.quizId))
                     ELSE IF d.reason = "none" THEN @
                     ELSE [@ EXCEPT !.toast = d.reason,
                                    !.description = d.description]]
    /\ UNCHANGED <<store, now, teacher>>

\* QuizAccess.tsx:134-136, 240-242  Back to Dashboard: navigate('/')
HandleBack(t) ==
    /\ tab[t].activeView = "info"
    /\ tab[t].access.pc = "idle"
    /\ IsSome(tab[t].profile)
    /\ ~ UsernameGate(tab[t].profile)
    /\ tab' = [tab EXCEPT ![t] =
                 [StudentDashboardState(tab[t].profile) EXCEPT
                    !.toast = tab[t].toast]]
    /\ UNCHANGED <<store, now, teacher>>

----------------------------------------------------------------------------
(* UsernameSetup: the form shown in place of the screen *)

\* UsernameSetup.tsx:51  the characters of the class [a-zA-Z0-9_-]
UsernameClass ==
    {"a", "b", "c", "d", "e", "f", "g", "h", "i", "j", "k", "l", "m",
     "n", "o", "p", "q", "r", "s", "t", "u", "v", "w", "x", "y", "z",
     "A", "B", "C", "D", "E", "F", "G", "H", "I", "J", "K", "L", "M",
     "N", "O", "P", "Q", "R", "S", "T", "U", "V", "W", "X", "Y", "Z",
     "0", "1", "2", "3", "4", "5", "6", "7", "8", "9", "_", "-"}

\* UsernameSetup.tsx:23  !username.trim()
Blank(username) == Trim(username) = << >>

TooShortThroughThree(username) == Len(username) <= MinUsernameLength

\* UsernameSetup.tsx:32  username.length < 3
TooShort(username) == Len(username) < MinUsernameLength

\* UsernameSetup.tsx:41  username.length > 20
TooLong(username) == Len(username) > MaxUsernameLength

\* UsernameSetup.tsx:51  /^[a-zA-Z0-9_-]+$/.test(username)
validUsername(username) ==
    /\ Len(username) >= 1
    /\ \A i \in 1..Len(username) : username[i] \in UsernameClass

\* UsernameSetup.tsx:23-58  the toast handleSubmit returns with, or "none"
Rejection(username) ==
    IF Blank(username) THEN "Invalid Username"
    ELSE IF TooShort(username) THEN "Username Too Short"
    ELSE IF TooLong(username) THEN "Username Too Long"
    ELSE IF ~ validUsername(username) THEN "Invalid Characters"
    ELSE "none"

\* UsernameSetup.tsx:20-60  handleSubmit up to the update's request, for the
\* text in the input.  (The input's required, minLength and maxLength
\* attributes and the disabled button, lines 120-137, keep some of these
\* texts from reaching the handler; the handler does not rely on them.)
HandleSubmit(t, username) ==
    /\ UsernameGate(tab[t].profile)
    /\ tab[t].setup.pc = "idle"
    /\ tab' = [tab EXCEPT ![t] =
                  IF Rejection(username) # "none"
                  THEN [@ EXCEPT !.toast = Rejection(username),
                                 !.description = None]
                  ELSE [@ EXCEPT !.setup = [pc |-> "update",
                                            username |-> username]]]
    /\ UNCHANGED <<store, now, teacher>>

\* migration 20250715055950  profiles.username is UNIQUE
UsernameUnique(id, username) ==
    \A p \in profiles : p.id # id => p.username # Some(username)

\* UsernameSetup.tsx:62-77, 87-97  the update of the student's own row
UpdateUsername(t, ok) ==
    LET d == tab[t]
        id == The(d.profile).id
        username == Trim(d.setup.username)
    IN  /\ d.setup.pc = "update"
        /\ IF ok /\ UsernameUnique(id, username)
           THEN /\ profiles' =
                      { IF p.id = id THEN [p EXCEPT !.username = Some(username)]
                        ELSE p : p \in profiles }
                /\ tab' = [tab EXCEPT ![t].setup.pc = "fetchProfile"]
           ELSE /\ tab' = [tab EXCEPT
                             ![t].toast = IF ok THEN "Username Taken"
                                          ELSE "Failed to set username",
                             ![t].description = None,
                             ![t].setup.pc = "idle"]
                /\ UNCHANGED profiles
        /\ UNCHANGED <<quizzes, questions, quiz_attempts, student_answers,
                       now, teacher>>

\* UsernameSetup.tsx:79-86, 96  fetchProfile() of the auth context has put
\* the student's row into the context (or, not ok, has left the context as
\* it was); the toast, and onComplete: nothing on the dashboard
\* (QuizTaking.tsx:828), window.location.reload() on the quiz-link page
\* (QuizAccess.tsx:140), after which the page's first render has reloaded
FetchProfile(t, ok, reloaded) ==
    LET d == tab[t]
        profile == IF ok THEN Some(ProfileById(The(d.profile).id))
                   ELSE d.profile
    IN  /\ d.setup.pc = "fetchProfile"
        /\ tab' = [tab EXCEPT ![t] =
                      IF d.activeView = "info"
                      THEN [StudentDashboardState(reloaded) EXCEPT
                              !.activeView = "info",
                              !.access = Rendered([NoAccess EXCEPT
                                            !.quizCode = d.access.quizCode,
                                            !.pc = "fetchQuiz",
                                            !.profile = reloaded])]
                      ELSE [d EXCEPT !.profile = profile,
                                     !.toast = "Username Set!",
                                     !.description = None,
                                     !.setup = NoSetup]]
        /\ UNCHANGED <<store, now, teacher>>

----------------------------------------------------------------------------
(* QuizTaking: the countdown effect and handleSubmitQuiz's entry *)

\* QuizTaking.tsx:32-39, 130  handleSubmitQuiz is created anew by every
\* render and closes over that render's state
Closure(c) ==
    [submitting |-> c.submitting, answers |-> c.answers,
     attemptId |-> c.attemptId, questions |-> c.questions, quiz |-> c.quiz]

\* QuizTaking.tsx:134-145  what one execution of handleSubmitQuiz holds: the
\* values of the render h it was created in, and its locals
NewRun(h) ==
    [pc |-> IF IsSome(h.quiz) THEN "insert" ELSE "thrown",
     answers |-> h.answers,
     attemptId |-> h.attemptId,
     length |-> Len(h.questions),
     todo |-> SelectSeq([i \in 1..Len(h.questions) |-> h.questions[i].id],
                        LAMBDA id : \E a \in h.answers :
                                        a.question_id = id),
     endTime |-> now,
     timeTakenMinutes |->
         IF IsSome(h.quiz) THEN TimeTakenMinutes(The(h.quiz).created_at, now)
         ELSE 0,
     score |-> 0, isCorrect |-> FALSE, finalScore |-> NaN,
     failed |-> FALSE]

\* QuizTaking.tsx:131  if (submitting) return
SubmitGuard(h) == ~ h.submitting

\* QuizTaking.tsx:130-137  the synchronous start of the handleSubmitQuiz of
\* render h, on the component in state c
HandleSubmitQuiz(c, h) ==
    IF SubmitGuard(h)
    THEN [c EXCEPT !.submitting = TRUE, !.runs = Append(@, NewRun(h)),
                   !.started = @ + 1]
    ELSE [c EXCEPT !.guardReturned = TRUE]

\* an effect without a dependency list runs after every commit
DepsOmitted(c, c2) == TRUE

\* QuizTaking.tsx:52  the effect's dependency list [timeLeft, quiz]
DepsChanged(c, c2) == c.timeLeft # c2.timeLeft \/ c.quiz # c2.quiz

\* QuizTaking.tsx:45-51  the countdown effect of a committed render runs; it
\* is pending only when it is going to call handleSubmitQuiz
CountdownEffect(c) ==
    IF c.effect = None THEN c
    ELSE [HandleSubmitQuiz([c EXCEPT !.timerCalls = @ + 1], The(c.effect))
            EXCEPT !.effect = None,
                   !.timerStarted =
                       IF SubmitGuard(The(c.effect)) THEN @ + 1 ELSE @]

\* The state updates of one step take the component from c to c2: a pending
\* effect runs before the new render, and the new render leaves its own
\* effect pending when a dependency changed and the countdown is at zero
Commit(c, c2) ==
    LET c3 == CountdownEffect(c2)
    IN  IF /\ c3.mounted
           /\ DepsChanged(c, c3)
           /\ ~ (c3.timeLeft > 0)
           /\ ZeroCheck(c3)
        THEN [c3 EXCEPT !.effect = Some(Closure(c3))]
        ELSE c3

\* The pending effect runs at the time React schedules it
FlushEffect(t) ==
    LET c == tab[t].c
    IN  /\ c.mounted
        /\ c.effect # None
        /\ tab' = [tab EXCEPT ![t].c = CountdownEffect(c)]
        /\ UNCHANGED <<store, now, teacher>>

\* QuizTaking.tsx:47  the pending one-second timeout fires
Tick(t) ==
    LET c == tab[t].c
    IN  /\ c.mounted
        /\ c.timeLeft > 0
        /\ tab' = [tab EXCEPT ![t].c =
                      Commit(c, [c EXCEPT !.timeLeft = c.timeLeft - 1])]
        /\ UNCHANGED <<store, now, teacher>>

----------------------------------------------------------------------------
(* QuizTaking.initializeQuiz *)

\* the countdown set to the quiz's minutes, taken as seconds
InitialTimeLeftInMinutes(quizData) == quizData.duration_minutes

\* QuizTaking.tsx:97  setTimeLeft(quizData.duration_minutes * 60)
InitialTimeLeft(quizData) == quizData.duration_minutes * SecondsPerMinute

InitializeFailedInPlace(d) == [d EXCEPT !.toast = "Failed to load quiz"]

\* QuizTaking.tsx:98-108  catch: toast, onBack(); the component unmounts
InitializeFailed(d) == OnBack([d EXCEPT !.toast = "Failed to load quiz"])

\* QuizTaking.tsx:57-63
InitFetchQuiz(t, ok) ==
    LET c == tab[t].c
        found == { q \in QuizById(The(tab[t].selectedQuizId)) :
                       QuizVisible(q) /\ ok }
    IN  /\ c.mounted /\ c.ipc = "fetchQuiz"
        /\ tab' = [tab EXCEPT ![t] =
                     IF found = {} THEN InitializeFailed(@)
                     ELSE [@ EXCEPT !.c.ipc = "fetchQuestions",
                                    !.c.quizData =
                                        Some(CHOOSE q \in found : TRUE)]]
        /\ UNCHANGED <<store, now, teacher>>

\* QuizTaking.tsx:65-78
InitFetchQuestions(t, ok) ==
    LET c == tab[t].c
    IN  /\ c.mounted /\ c.ipc = "fetchQuestions"
        /\ tab' = [tab EXCEPT ![t] =
                     IF ~ ok THEN InitializeFailed(@)
                     ELSE [@ EXCEPT !.c.ipc = "insertAttempt",
                                    !.c.questionsData =
                                        SelectQuestions(
                                            The(tab[t].selectedQuizId))]]
        /\ UNCHANGED <<store, now, teacher>>

\* QuizTaking.tsx:80-97, 106-108
InitInsertAttempt(t, ok) ==
    LET c == tab[t].c
        quizId == The(tab[t].selectedQuizId)
        row == [id |-> MaxId(quiz_attempts) + 1,
                quiz_id |-> quizId,
                student_id |-> StudentId,
                started_at |-> now,
                completed_at |-> None,
                score |-> Some(0),
                total_questions |-> Len(c.questionsData),
                is_completed |-> FALSE,
                time_taken_minutes |-> None]
        c2 == [c EXCEPT !.ipc = "done",
                        !.quiz = c.quizData,
                        !.questions = c.questionsData,
                        !.attemptId = Some(row.id),
                        !.timeLeft = InitialTimeLeft(The(c.quizData)),
                        !.loading = FALSE]
    IN  /\ c.mounted /\ c.ipc = "insertAttempt"
        /\ IF ok /\ AttemptInsertAllowed(quizId, StudentId)
           THEN /\ quiz_attempts' = quiz_attempts \cup {row}
                /\ tab' = [tab EXCEPT ![t].c = Commit(c, c2)]
           ELSE /\ tab' = [tab EXCEPT ![t] = InitializeFailed(@)]
                /\ UNCHANGED quiz_attempts
        /\ UNCHANGED <<quizzes, questions, student_answers, profiles,
                       now, teacher>>

----------------------------------------------------------------------------
(* QuizTaking: what the student does on the question screen *)

\* QuizTaking.tsx:210-224  the question screen is rendered
QuestionScreen(c) ==
    c.mounted /\ ~ c.loading /\ IsSome(c.quiz) /\ Len(c.questions) > 0

\* QuizTaking.tsx:111-116, called with the current question (287-336)
HandleAnswerChange(t, answer) ==
    LET c == tab[t].c
        questionId == c.questions[c.currentQuestionIndex + 1].id
    IN  /\ QuestionScreen(c)
        /\ c.edits < MaxEdits
        /\ tab' = [tab EXCEPT ![t].c = Commit(c,
                      [c EXCEPT !.answers =
                          { a \in @ : a.question_id # questionId } \cup
                          {[question_id |-> questionId, answer |-> answer]},
                                !.edits = @ + 1])]
        /\ UNCHANGED <<store, now, teacher>>

\* QuizTaking.tsx:118-122
HandleNextQuestion(t) ==
    LET c == tab[t].c
    IN  /\ QuestionScreen(c)
        /\ c.currentQuestionIndex < Len(c.questions) - 1
        /\ tab' = [tab EXCEPT ![t].c = Commit(c,
                      [c EXCEPT !.currentQuestionIndex = @ + 1])]
        /\ UNCHANGED <<store, now, teacher>>

\* QuizTaking.tsx:124-128
HandlePreviousQuestion(t) ==
    LET c == tab[t].c
    IN  /\ QuestionScreen(c)
        /\ c.currentQuestionIndex > 0
        /\ tab' = [tab EXCEPT ![t].c = Commit(c,
                      [c EXCEPT !.currentQuestionIndex = @ - 1])]
        /\ UNCHANGED <<store, now, teacher>>

\* QuizTaking.tsx:347-355  the Submit Quiz button: shown on the last
\* question, disabled while submitting
ClickSubmit(t) ==
    LET c == tab[t].c
    IN  /\ QuestionScreen(c)
        /\ c.currentQuestionIndex = Len(c.questions) - 1
        /\ ~ c.submitting
        /\ c.started < MaxSubmits
        /\ tab' = [tab EXCEPT ![t].c =
                      Commit(c, HandleSubmitQuiz(c, Closure(c)))]
        /\ UNCHANGED <<store, now, teacher>>

\* QuizTaking.tsx:242-245, 834-837  Exit Quiz: onBack unmounts QuizTaking
ExitQuiz(t) ==
    LET c == tab[t].c
    IN  /\ QuestionScreen(c)
        /\ ~ c.submitting
        /\ tab' = [tab EXCEPT ![t] = OnBack(@)]
        /\ UNCHANGED <<store, now, teacher>>

----------------------------------------------------------------------------
(* handleSubmitQuiz after its first await: run i of tab t *)

SetRun(t, i, r) == [tab EXCEPT ![t].c.runs[i] = r]

RemoveRun(runs, i) == SubSeq(runs, 1, i - 1) \o SubSeq(runs, i + 1, Len(runs))

\* QuizTaking.tsx:198-207  catch and finally
SubmitFailed(t, i) ==
    [tab EXCEPT ![t].toast = "Failed to submit quiz",
                ![t].c = Commit(@, [@ EXCEPT !.runs = RemoveRun(@, i),
                                             !.submitting = FALSE])]

\* where the loop of lines 157-175 goes after the current answer
AfterAnswer(r) ==
    [r EXCEPT !.todo = Tail(@),
              !.pc = IF Len(r.todo) > 1 THEN "fetch" ELSE "update"]

\* QuizTaking.tsx:140-145  the rows of the batch
AnswersToInsert(r) ==
    { [id |-> MaxId(student_answers) + i,
       attempt_id |-> The(r.attemptId),
       question_id |-> r.todo[i],
       student_answer |->
           (CHOOSE a \in r.answers : a.question_id = r.todo[i]).answer,
       is_correct |-> FALSE] : i \in 1..Len(r.todo) }

\* QuizTaking.tsx:147-153
SubmitInsertAnswers(t, i, ok) ==
    LET c == tab[t].c
        r == c.runs[i]
    IN  /\ i \in 1..Len(c.runs) /\ r.pc \in {"insert", "thrown"}
        /\ IF r.pc = "insert" /\ r.todo = << >>
           THEN /\ tab' = SetRun(t, i, [r EXCEPT !.pc = "update"])
                /\ UNCHANGED student_answers
           ELSE IF r.pc = "insert" /\ ok /\ IsSome(r.attemptId)
                      /\ AnswerInsertAllowed(AnswersToInsert(r))
           THEN /\ student_answers' = student_answers \cup AnswersToInsert(r)
                /\ tab' = SetRun(t, i, [r EXCEPT !.pc = "fetch"])
           ELSE /\ tab' = SubmitFailed(t, i)
                /\ UNCHANGED student_answers
        /\ UNCHANGED <<quizzes, questions, quiz_attempts, profiles,
                       now, teacher>>

\* QuizTaking.tsx:158-166
SubmitFetchCorrect(t, i, ok) ==
    LET c == tab[t].c
        r == c.runs[i]
        found == { q \in questions :
                      q.id = Head(r.todo) /\ QuestionVisible(q) /\ ok }
        question == CHOOSE q \in found : TRUE
        studentAnswer ==
            (CHOOSE a \in r.answers : a.question_id = Head(r.todo)).answer
        isCorrect == IsCorrect(studentAnswer, question.correct_answer)
    IN  /\ i \in 1..Len(c.runs) /\ r.pc = "fetch"
        /\ tab' = SetRun(t, i,
                     IF found = {}
                     THEN [AfterAnswer(r) EXCEPT !.failed = TRUE]
                     ELSE [r EXCEPT !.pc = "patch",
                                    !.isCorrect = isCorrect,
                                    !.score = IF isCorrect THEN @ + 1 ELSE @])
        /\ UNCHANGED <<store, now, teacher>>

\* QuizTaking.tsx:168-173  the update's result is not looked at
SubmitPatchAnswer(t, i, ok) ==
    LET c == tab[t].c
        r == c.runs[i]
    IN  /\ i \in 1..Len(c.runs) /\ r.pc = "patch"
        /\ IF ok
           THEN student_answers' =
                   { IF /\ Some(a.attempt_id) = r.attemptId
                        /\ a.question_id = Head(r.todo)
                     THEN [a EXCEPT !.is_correct = r.isCorrect]
                     ELSE a : a \in student_answers }
           ELSE UNCHANGED student_answers
        /\ tab' = SetRun(t, i,
                     [AfterAnswer(r) EXCEPT !.failed = r.failed \/ ~ ok])
        /\ UNCHANGED <<quizzes, questions, quiz_attempts, profiles,
                       now, teacher>>

\* QuizTaking.tsx:177-190  the attempt update reaches the store
SubmitUpdateAttempt(t, i, ok) ==
    LET c == tab[t].c
        r == c.runs[i]
        finalScore == FinalScore(r.score, r.length)
    IN  /\ i \in 1..Len(c.runs) /\ r.pc = "update"
        /\ IF ok
           THEN /\ quiz_attempts' =
                      { IF Some(a.id) = r.attemptId
                        THEN [a EXCEPT !.is_completed = TRUE,
                                       !.completed_at = Some(now),
                                       !.score = ToJson(finalScore),
                                       !.time_taken_minutes =
                                           Some(r.timeTakenMinutes)]
                        ELSE a : a \in quiz_attempts }
                /\ tab' = SetRun(t, i, [r EXCEPT !.pc = "updated",
                                                 !.finalScore = finalScore])
           ELSE /\ tab' = SubmitFailed(t, i)
                /\ UNCHANGED quiz_attempts
        /\ UNCHANGED <<quizzes, questions, student_answers, profiles,
                       now, teacher>>

\* QuizTaking.tsx:190-197, 205-207, 796-801  the caller resumes: toast,
\* onCompleted() unmounts QuizTaking
SubmitCompleted(t, i) ==
    LET c == tab[t].c
        r == c.runs[i]
    IN  /\ i \in 1..Len(c.runs) /\ r.pc = "updated"
        /\ tab' = [tab EXCEPT ![t] =
                      OnCompleted([@ EXCEPT !.toast = "Quiz Submitted!"])]
        /\ UNCHANGED <<store, now, teacher>>

----------------------------------------------------------------------------

RunIndexes == 1..(MaxSubmits + 1)

TeacherNext ==
    \/ \E duration \in Durations, ok \in BOOLEAN :
          SaveQuizInsertQuiz(duration, ok)
    \/ \E ok \in BOOLEAN : SaveQuizInsertQuestions(ok)
    \/ BackfillQuizCodes
    \/ \E q \in quizzes, ok \in BOOLEAN : ToggleQuizStatus(q.id, ok)

JoinNext ==
    \/ \E t \in Tabs, typed \in TypedCodes, okQuiz \in BOOLEAN,
          okAttempt \in BOOLEAN : HandleJoinQuiz(t, typed, okQuiz, okAttempt)
    \/ \E t \in Tabs, ok \in BOOLEAN : InitFetchQuiz(t, ok)
    \/ \E t \in Tabs, ok \in BOOLEAN : InitFetchQuestions(t, ok)
    \/ \E t \in Tabs, ok \in BOOLEAN : InitInsertAttempt(t, ok)
    \/ \E t \in Tabs : ExitQuiz(t)

SubmitNext ==
    \/ \E t \in Tabs : FlushEffect(t)
    \/ \E t \in Tabs : ClickSubmit(t)
    \/ \E t \in Tabs, i \in RunIndexes, ok \in BOOLEAN :
          SubmitInsertAnswers(t, i, ok)
    \/ \E t \in Tabs, i \in RunIndexes, ok \in BOOLEAN :
          SubmitFetchCorrect(t, i, ok)
    \/ \E t \in Tabs, i \in RunIndexes, ok \in BOOLEAN :
          SubmitPatchAnswer(t, i, ok)
    \/ \E t \in Tabs, i \in RunIndexes, ok \in BOOLEAN :
          SubmitUpdateAttempt(t, i, ok)
    \/ \E t \in Tabs, i \in RunIndexes : SubmitCompleted(t, i)

(* The countdown: one tab, a one-question quiz, the one-second timer running
   against answer changes and manual submission.  The countdown counts timer
   callbacks; the wall clock stands still here. *)
InitCountdown == InitWith(SubSeq(Draft, 1, 1), {"tab1"})

NextCountdown ==
    \/ TeacherNext
    \/ JoinNext
    \/ SubmitNext
    \/ \E t \in Tabs : Tick(t)
    \/ \E t \in Tabs, answer \in Inputs : HandleAnswerChange(t, answer)

SpecCountdown == InitCountdown /\ [][NextCountdown]_vars

(* The countdown with its scheduling: a timeout that is pending fires, and
   React runs an effect that is pending. *)
SpecTimer ==
    /\ SpecCountdown
    /\ \A t \in {"tab1"} : WF_vars(Tick(t)) /\ WF_vars(FlushEffect(t))

(* The countdown on one of two quizzes that differ only in the correct answer
   of their question. *)
InitSecrecy ==
    \E correct_answer \in {<<"A">>, <<"B">>} :
        InitWith(<<[question_type |-> "multiple_choice",
                    correct_answer |-> correct_answer]>>, {"tab1"})

SpecSecrecy == InitSecrecy /\ [][NextCountdown]_vars

(* Scoring: one tab, a three-question quiz, answering and submitting within
   the first minute (so that a countdown that is running does not expire:
   its seconds are not counted here). *)
InitScoring == InitWith(Draft, {"tab1"})

NextScoring ==
    \/ TeacherNext
    \/ JoinNext
    \/ SubmitNext
    \/ Pass
    \/ \E t \in Tabs, answer \in Inputs : HandleAnswerChange(t, answer)
    \/ \E t \in Tabs : HandleNextQuestion(t)
    \/ \E t \in Tabs : HandlePreviousQuestion(t)

SpecScoring == InitScoring /\ [][NextScoring]_vars

(* Two tabs of the same student joining and initializing the same quiz. *)
InitTabs == InitWith(SubSeq(Draft, 1, 1), {"tab1", "tab2"})

NextTabs ==
    \/ TeacherNext
    \/ JoinNext
    \/ Pass

SpecTabs == InitTabs /\ [][NextTabs]_vars

(* Marking: a student on the question screen of an active one-question
   quiz whose type and correct answer are any of QuestionTypes and Texts, who
   has recorded any of Texts, submits; up to the end of the marking loop of
   handleSubmitQuiz. *)
InitCompare ==
    \E ty \in QuestionTypes, correct_answer \in Texts, studentAnswer \in Texts :
        LET quiz == [id |-> 1, total_questions |-> 1, duration_minutes |-> 1,
                     start_time |-> None, end_time |-> None,
                     is_active |-> TRUE,
                     quiz_code |-> CHOOSE g \in GeneratedCodes : TRUE,
                     created_at |-> 0]
            question == [id |-> <<1, 0>>, quiz_id |-> 1, question_type |-> ty,
                         correct_answer |-> correct_answer, order_index |-> 0]
            attempt == [id |-> 1, quiz_id |-> 1, student_id |-> StudentId,
                        started_at |-> 0, completed_at |-> None,
                        score |-> Some(0), total_questions |-> 1,
                        is_completed |-> FALSE, time_taken_minutes |-> None]
            loaded == <<[id |-> question.id, question_type |-> ty,
                         order_index |-> 0]>>
        IN  /\ quizzes = {quiz}
            /\ questions = {question}
            /\ quiz_attempts = {attempt}
            /\ student_answers = {}
            /\ profiles = {SignedIn}
            /\ now = 0
            /\ teacher = [view |-> "dashboard", quizId |-> None,
                          generatedQuestions |->
                              <<[question_type |-> ty,
                                 correct_answer |-> correct_answer]>>]
            /\ tab = [t \in {"tab1"} |->
                         [StudentDashboardState(Some(SignedIn)) EXCEPT
                          !.activeView = "quiz", !.selectedQuizId = Some(1),
                          !.c = [Unmounted EXCEPT
                                    !.mounted = TRUE, !.ipc = "done",
                                    !.quizData = Some(quiz),
                                    !.questionsData = loaded,
                                    !.quiz = Some(quiz),
                                    !.questions = loaded,
                                    !.attemptId = Some(attempt.id),
                                    !.timeLeft = SecondsPerMinute,
                                    !.loading = FALSE,
                                    !.answers =
                                        {[question_id |-> question.id,
                                          answer |-> studentAnswer]},
                                    !.edits = 1]]]

NextCompare ==
    \/ \E t \in Tabs : ClickSubmit(t)
    \/ \E t \in Tabs, i \in RunIndexes, ok \in BOOLEAN :
          SubmitInsertAnswers(t, i, ok)
    \/ \E t \in Tabs, i \in RunIndexes, ok \in BOOLEAN :
          SubmitFetchCorrect(t, i, ok)
    \/ \E t \in Tabs, i \in RunIndexes, ok \in BOOLEAN :
          SubmitPatchAnswer(t, i, ok)

SpecCompare == InitCompare /\ [][NextCompare]_vars

(* Admission: a saved quiz with or without a time window, active or not,
   attempted before or not; the student's two tabs join by code on the
   dashboard or start from the quiz link, while the teacher toggles the quiz
   and time passes. *)
StartTimes == {None, Some(SecondsPerHour)}
EndTimes == {None, Some(SecondsPerMinute \div 4), Some(SecondsPerMinute \div 2)}

InitAdmission ==
    \E is_active \in BOOLEAN, start_time \in StartTimes, end_time \in EndTimes,
       attempted \in BOOLEAN :
        LET quiz == [id |-> 1, total_questions |-> 1, duration_minutes |-> 1,
                     start_time |-> start_time, end_time |-> end_time,
                     is_active |-> is_active,
                     quiz_code |-> CHOOSE g \in GeneratedCodes : TRUE,
                     created_at |-> 0]
            attempt == [id |-> 1, quiz_id |-> 1, student_id |-> StudentId,
                        started_at |-> 0, completed_at |-> None,
                        score |-> Some(0), total_questions |-> 1,
                        is_completed |-> FALSE, time_taken_minutes |-> None]
        IN  /\ start_time = None \/ end_time = None
            /\ quizzes = {quiz}
            /\ questions = {[id |-> <<1, 0>>, quiz_id |-> 1,
                             question_type |-> Draft[1].question_type,
                             correct_answer |-> Draft[1].correct_answer,
                             order_index |-> 0]}
            /\ quiz_attempts = IF attempted THEN {attempt} ELSE {}
            /\ student_answers = {}
            /\ profiles = {SignedIn}
            /\ now = 0
            /\ teacher = [view |-> "dashboard", quizId |-> None,
                          generatedQuestions |-> SubSeq(Draft, 1, 1)]
            /\ tab = [t \in {"tab1", "tab2"} |->
                         StudentDashboardState(Some(SignedIn))]

AccessNext ==
    \/ \E t \in Tabs, quizCode \in TypedCodes,
          profile \in {None, Some(ProfileById(StudentId))} :
          OpenQuizLink(t, quizCode, profile)
    \/ \E t \in Tabs : ProfileLoaded(t)
    \/ \E t \in Tabs, ok \in BOOLEAN : FetchQuizInfo(t, ok)
    \/ \E t \in Tabs, ok \in BOOLEAN : FetchExistingAttempt(t, ok)
    \/ \E t \in Tabs : HandleStartQuiz(t)
    \/ \E t \in Tabs : HandleBack(t)

NextAdmission ==
    \/ JoinNext
    \/ AccessNext
    \/ \E q \in quizzes, ok \in BOOLEAN : ToggleQuizStatus(q.id, ok)
    \/ Pass

SpecAdmission == InitAdmission /\ [][NextAdmission]_vars

(* Results: the student has a completed attempt, an hour old within
   MaxSeconds; the dashboards of two tabs fetch their lists and the student
   asks for the results while the seconds pass. *)
CompletedAts == {0, 1}

InitResults ==
    \E completed_at \in CompletedAts :
        /\ quizzes = {[id |-> 1, total_questions |-> 1, duration_minutes |-> 1,
                       start_time |-> None, end_time |-> None,
                       is_active |-> TRUE,
                       quiz_code |-> CHOOSE g \in GeneratedCodes : TRUE,
                       created_at |-> 0]}
        /\ questions = {[id |-> <<1, 0>>, quiz_id |-> 1,
                         question_type |-> Draft[1].question_type,
                         correct_answer |-> Draft[1].correct_answer,
                         order_index |-> 0]}
        /\ quiz_attempts =
              {[id |-> 1, quiz_id |-> 1, student_id |-> StudentId,
                started_at |-> 0, completed_at |-> Some(completed_at),
                score |-> Some(0), total_questions |-> 1,
                is_completed |-> TRUE, time_taken_minutes |-> Some(0)]}
        /\ student_answers = {}
        /\ profiles = {SignedIn}
        /\ now = SecondsPerHour - MaxSeconds
        /\ teacher = [view |-> "dashboard", quizId |-> None,
                      generatedQuestions |-> SubSeq(Draft, 1, 1)]
        /\ tab = [t \in {"tab1", "tab2"} |->
                     StudentDashboardState(Some(SignedIn))]

NextResults ==
    \/ \E t \in Tabs, ok \in BOOLEAN : FetchAttempts(t, ok)
    \/ \E t \in Tabs, a \in quiz_attempts : ViewResults(t, a.id)
    \/ \E t \in Tabs : ResultsBack(t)
    \/ Second

SpecResults == InitResults /\ [][NextResults]_vars

(* Usernames: a student without a username, and another student who has
   taken one; the form is submitted with every text of Typed. *)
TypedChars == {"a", " ", "!"}

RECURSIVE TextsOver(_, _)
TextsOver(chars, n) ==
    IF n = 0 THEN { << >> }
    ELSE LET shorter == TextsOver(chars, n - 1)
         IN  shorter \cup { Append(s, ch) : s \in shorter, ch \in chars }

Repeat(ch, n) == [i \in 1..n |-> ch]

Taken == <<"a", "b", "_">>

Typed ==
    TextsOver(TypedChars, MaxTyped)
    \cup { <<"a", "b">>, <<"a", "b", "_", "1", "2">>, Taken,
           <<"a", "-", "Z", "9">>, <<"a", "b", " ">>,
           Repeat("a", MaxUsernameLength),
           Repeat("a", MaxUsernameLength + 1),
           Append(Repeat("a", MaxUsernameLength), " ") }

NewStudent == [id |-> StudentId, username |-> None]

InitUsername ==
    /\ quizzes = {}
    /\ questions = {}
    /\ quiz_attempts = {}
    /\ student_answers = {}
    /\ profiles = {NewStudent, [id |-> "s2", username |-> Some(Taken)]}
    /\ now = 0
    /\ teacher = [view |-> "dashboard", quizId |-> None,
                  generatedQuestions |-> SubSeq(Draft, 1, 1)]
    /\ tab = [t \in {"tab1"} |-> StudentDashboardState(Some(NewStudent))]

SetupNext(typed) ==
    \/ \E t \in Tabs, username \in typed : HandleSubmit(t, username)
    \/ \E t \in Tabs, ok \in BOOLEAN : UpdateUsername(t, ok)
    \/ \E t \in Tabs, ok \in BOOLEAN,
          reloaded \in {None, Some(ProfileById(StudentId))} :
          FetchProfile(t, ok, reloaded)

NextUsername == SetupNext(Typed)

SpecUsername == InitUsername /\ [][NextUsername]_vars

(* The gate: a student without a username, an active quiz; in two tabs the
   student meets the form on the dashboard and on the quiz link, sets a
   username or not, joins and starts. *)
InitGate ==
    /\ quizzes = {[id |-> 1, total_questions |-> 1, duration_minutes |-> 1,
                   start_time |-> None, end_time |-> None, is_active |-> TRUE,
                   quiz_code |-> CHOOSE g \in GeneratedCodes : TRUE,
                   created_at |-> 0]}
    /\ questions = {[id |-> <<1, 0>>, quiz_id |-> 1,
                     question_type |-> Draft[1].question_type,
                     correct_answer |-> Draft[1].correct_answer,
                     order_index |-> 0]}
    /\ quiz_attempts = {}
    /\ student_answers = {}
    /\ profiles = {NewStudent}
    /\ now = 0
    /\ teacher = [view |-> "dashboard", quizId |-> None,
                  generatedQuestions |-> SubSeq(Draft, 1, 1)]
    /\ tab = [t \in {"tab1", "tab2"} |->
                 StudentDashboardState(Some(NewStudent))]

NextGate ==
    \/ SetupNext({<<"a", "b">>, <<"a", "b", "_", "1", "2">>})
    \/ JoinNext
    \/ AccessNext

SpecGate == InitGate /\ [][NextGate]_vars

(* Deletion: an active quiz with one question, of no or one minute; the
   student joins, answers and submits in one tab while the teacher deletes
   the quiz at any time. *)
InitDelete ==
    /\ \E duration \in Durations :
          quizzes = {[id |-> 1, total_questions |-> 1,
                      duration_minutes |-> duration,
                      start_time |-> None, end_time |-> None,
                      is_active |-> TRUE,
                      quiz_code |-> CHOOSE g \in GeneratedCodes : TRUE,
                      created_at |-> 0]}
    /\ questions = {[id |-> <<1, 0>>, quiz_id |-> 1,
                     question_type |-> Draft[1].question_type,
                     correct_answer |-> Draft[1].correct_answer,
                     order_index |-> 0]}
    /\ quiz_attempts = {}
    /\ student_answers = {}
    /\ profiles = {SignedIn}
    /\ now = 0
    /\ teacher = [view |-> "dashboard", quizId |-> None,
                  generatedQuestions |-> SubSeq(Draft, 1, 1)]
    /\ tab = [t \in {"tab1"} |-> StudentDashboardState(Some(SignedIn))]

NextDelete ==
    \/ JoinNext
    \/ SubmitNext
    \/ \E t \in Tabs, answer \in Inputs : HandleAnswerChange(t, answer)
    \/ \E id \in {1}, ok \in BOOLEAN : DeleteQuiz(id, ok)

SpecDelete == InitDelete /\ [][NextDelete]_vars

----------------------------------------------------------------------------
(* What the properties below speak of *)

CompletedAttempts == { a \in quiz_attempts : a.is_completed }
AnswersOf(attemptId) == { x \in student_answers : x.attempt_id = attemptId }
CorrectAnswerOf(questionId) ==
    (CHOOSE q \in questions : q.id = questionId).correct_answer

\* The runs of handleSubmitQuiz in flight, each with its tab and controller
Runs ==
    UNION { { [t |-> t, c |-> tab[t].c, r |-> tab[t].c.runs[i]] :
                i \in 1..Len(tab[t].c.runs) } : t \in Tabs }

\* The integer nearest to p / q, halves upwards (p >= 0, q > 0)
Nearest(p, q) ==
    CHOOSE n \in 0..(p \div q + 1) :
        2 * q * n <= 2 * p + q /\ 2 * p + q < 2 * q * (n + 1)

\* Two texts are equal once the blanks around them are dropped and the case
\* of letters is ignored
NonBlank(s) == { i \in 1..Len(s) : s[i] # " " }
Core(s) ==
    IF NonBlank(s) = {} THEN << >>
    ELSE SubSeq(s, CHOOSE i \in NonBlank(s) : \A j \in NonBlank(s) : i <= j,
                   CHOOSE i \in NonBlank(s) : \A j \in NonBlank(s) : j <= i)
SameLetter(a, b) ==
    \/ a = b
    \/ \E i \in 1..Len(UpperLetters) : {a, b} = {UpperLetters[i], LowerLetters[i]}
SameText(x, y) ==
    /\ Len(Core(x)) = Len(Core(y))
    /\ \A i \in 1..Len(Core(x)) : SameLetter(Core(x)[i], Core(y)[i])

\* The answers a run took from its render that match the stored correct answer
Matching(r) ==
    { x \in r.answers :
        \E q \in questions : /\ q.id = x.question_id
                              /\ SameText(x.answer, q.correct_answer) }

\* The student has an attempt at the quiz
AttemptExists(quizId) ==
    \E a \in quiz_attempts : a.quiz_id = quizId /\ a.student_id = StudentId

\* The quiz is active and the clock is within its window
Open(q) ==
    /\ q.is_active
    /\ IsSome(q.start_time) => now >= The(q.start_time)
    /\ IsSome(q.end_time) => now <= The(q.end_time)

\* The quizzes a typed code addresses
Addressed(typed) ==
    { q \in quizzes :
        /\ Len(q.quiz_code) = Len(typed)
        /\ \A j \in 1..Len(typed) : SameLetter(q.quiz_code[j], typed[j]) }

\* The conditions of the admission guard that hold of a quiz
Conditions(q) ==
    (IF q.is_active THEN {} ELSE {"inactive"})
    \cup (IF IsSome(q.start_time) /\ now < The(q.start_time)
          THEN {"before-start"} ELSE {})
    \cup (IF IsSome(q.end_time) /\ now > The(q.end_time)
          THEN {"after-end"} ELSE {})
    \cup (IF AttemptExists(q.id) THEN {"attempted"} ELSE {})

\* The condition a message of the application names
ConditionNamed(message) ==
    CASE message \in {"Quiz Not Found", "Quiz not found",
                      "Quiz not found or invalid code"} -> "not-found"
      [] message \in {"Quiz Not Active", "Quiz is not currently active"}
            -> "inactive"
      [] message \in {"Quiz Not Available", "Quiz will be available from"}
            -> "before-start"
      [] message \in {"Quiz Expired", "Quiz expired on"} -> "after-end"
      [] message \in {"Already Attempted",
                      "You have already attempted this quiz"} -> "attempted"
      [] OTHER -> "none"

\* A rejection with message of a start that addressed the quizzes qs names
\* a condition that holds: not-found when there is no such quiz, and else a
\* condition of the guard that holds of the quiz
NamesItsCondition(message, qs) ==
    IF qs = {} THEN ConditionNamed(message) = "not-found"
    ELSE \A q \in qs : ConditionNamed(message) \in Conditions(q)

\* part_003:151  the alphabet of generate_quiz_code
CodeAlphabet ==
    {"A", "B", "C", "D", "E", "F", "G", "H", "I", "J", "K", "L", "M",
     "N", "O", "P", "Q", "R", "S", "T", "U", "V", "W", "X", "Y", "Z",
     "0", "1", "2", "3", "4", "5", "6", "7", "8", "9"}

QuizCodeLength == 6

\* A username as the contract wants it: not empty, 3 to 20 characters, each
\* a letter, a digit, "_" or "-"
WellFormed(username) ==
    /\ username # << >>
    /\ Len(username) \in 3..20
    /\ \A i \in DOMAIN username :
          \/ username[i] \in {"_", "-"}
          \/ username[i] \in UsernameClass \ {"_", "-"}

\* The username the store holds for a student
UsernameOf(id) == ProfileById(id).username

\* A Submit on the attempt of the mounted controller has failed: its toast
\* is on show
SubmitHasFailed(d) ==
    d.c.mounted /\ IsSome(d.c.attemptId) /\ d.toast = "Failed to submit quiz"

----------------------------------------------------------------------------
(* Properties *)

\* C1: the store never holds two attempts of one student on one quiz, however
\* the student's tabs interleave their join checks and their Initialize
AtMostOneAttempt ==
    \A a, b \in quiz_attempts :
        (a.quiz_id = b.quiz_id /\ a.student_id = b.student_id) => a = b

\* one tab holds the attempt while another, whose join check passed before
\* the attempt existed, is about to insert its own
AtMostOneAttemptWitness ==
    \E t1, t2 \in Tabs :
        /\ t1 # t2
        /\ IsSome(tab[t1].c.attemptId)
        /\ tab[t2].c.ipc = "insertAttempt"
        /\ \E a \in quiz_attempts :
              /\ Some(a.quiz_id) = tab[t2].selectedQuizId
              /\ a.student_id = StudentId

\* C2: on one controller at most one body of Submit is running, and one is
\* running exactly while submitting is set, so that an invocation made
\* meanwhile returns at the guard
OneSubmitInFlight ==
    \A t \in Tabs :
        /\ Len(tab[t].c.runs) <= 1
        /\ tab[t].c.submitting <=> Len(tab[t].c.runs) = 1

\* C3: the countdown invokes Submit once when it has reached zero, and that
\* invocation runs Submit unless one has been started; once the attempt is
\* completed, no invocation by the countdown starts a Submit and no Tick
\* changes a row
TimerSubmitsOnce ==
    /\ [](\A t \in Tabs :
            LET c == tab[t].c
                pending == IF c.effect = None THEN 0 ELSE 1
            IN  /\ c.timerCalls + pending <= 1
                /\ (c.mounted /\ IsSome(c.quiz) /\ c.timeLeft = 0)
                      => c.timerCalls + pending = 1
                /\ c.timerCalls = 1 => (c.timeLeft = 0 /\ c.started >= 1))
    /\ [][\A t \in Tabs :
            (\E a \in CompletedAttempts : Some(a.id) = tab[t].c.attemptId)
            => /\ tab'[t].c.mounted =>
                      tab'[t].c.timerStarted = tab[t].c.timerStarted
               /\ (Tick(t) \/ FlushEffect(t)) =>
                      (UNCHANGED store /\ tab'[t].c.runs = tab[t].c.runs)]_vars

\* the countdown of a one-minute quiz has reached zero on an attempt that is
\* not completed, and the one Submit it invoked is in flight
TimerSubmitsOnceWitness ==
    \E x \in Runs :
        /\ The(x.c.quiz).duration_minutes = 1
        /\ x.c.timeLeft = 0
        /\ x.c.timerCalls = 1
        /\ x.c.timerStarted = 1
        /\ x.c.started = 1
        /\ \E a \in quiz_attempts :
              Some(a.id) = x.c.attemptId /\ ~ a.is_completed

\* C4: when the attempt update of a controller's first Submit has reached the
\* store and no call of that Submit failed, the attempt of a quiz with n >= 1
\* questions is completed with score round(100 * k / n), k the recorded
\* answers that match; with no recorded answer the score is 0 and the attempt
\* has no answer row
CleanSubmitScore ==
    \A x \in Runs :
        (x.r.pc = "updated" /\ ~ x.r.failed /\ x.c.started = 1) =>
            \A a \in AttemptById(The(x.r.attemptId)) :
                LET n == Cardinality(QuestionsOf(a.quiz_id))
                    k == Cardinality(Matching(x.r))
                IN  n >= 1 =>
                      /\ a.is_completed
                      /\ a.score = Some(Nearest(100 * k, n))
                      /\ x.r.answers = {} =>
                            (a.score = Some(0) /\ AnswersOf(a.id) = {})

\* C5: the score of a completed attempt is round(100 * c / total_questions),
\* c the attempt's stored answers marked correct
ScoreCountsMarkedAnswers ==
    \A a \in CompletedAttempts :
        a.total_questions >= 1 =>
            a.score =
                Some(Nearest(100 * Cardinality({ x \in AnswersOf(a.id) :
                                                   x.is_correct }),
                             a.total_questions))

\* C6: the score of every attempt is an integer from 0 to 100
ScoreInRange ==
    \A a \in quiz_attempts : IsSome(a.score) /\ The(a.score) \in 0..100

\* C7: the marking step marks an answer correct exactly when it equals the
\* question's correct answer after trimming and ignoring case, whatever the
\* question's type; and after a marking loop in which no call failed, each
\* stored answer of the attempt is marked so
MarkedWhenSameText ==
    \A x \in Runs :
        /\ x.r.pc = "patch" =>
              (x.r.isCorrect <=>
                  SameText((CHOOSE a \in x.r.answers :
                                a.question_id = Head(x.r.todo)).answer,
                           CorrectAnswerOf(Head(x.r.todo))))
        /\ (x.r.pc = "update" /\ ~ x.r.failed) =>
              \A a \in AnswersOf(The(x.r.attemptId)) :
                  a.is_correct <=>
                      SameText(a.student_answer, CorrectAnswerOf(a.question_id))

\* an answer that differs from the correct answer as text is stored as
\* correct, and the marking loop is over
MarkedWhenSameTextWitness ==
    \E x \in Runs :
        /\ x.r.pc = "update"
        /\ ~ x.r.failed
        /\ \E a \in AnswersOf(The(x.r.attemptId)) :
              /\ a.is_correct
              /\ a.student_answer # CorrectAnswerOf(a.question_id)
              /\ (CHOOSE q \in questions : q.id = a.question_id).question_type
                    = "theory"

\* C8: the minutes stored with a completed attempt are the rounded minutes
\* from the attempt's started_at to the moment Submit was invoked
TimeTakenSinceStart ==
    \A x \in Runs :
        x.r.pc = "updated" =>
            \A a \in AttemptById(The(x.r.attemptId)) :
                a.time_taken_minutes =
                    Some(Nearest(x.r.endTime - a.started_at, SecondsPerMinute))

\* C9: a Submit in which a store call failed does not complete the attempt
FailedSubmitStaysIncomplete ==
    \A x \in Runs : x.r.failed => x.r.pc # "updated"

\* C10: the store never holds two answers of one attempt to one question
AtMostOneAnswer ==
    \A a, b \in student_answers :
        (a.attempt_id = b.attempt_id /\ a.question_id = b.question_id) => a = b

\* C11: a start made while the student has an attempt at the quiz does not
\* show the quiz-taking screen, so that no attempt insert follows, and on an
\* open quiz whose lookup succeeded it is answered with "Already Attempted";
\* on the dashboard's code entry and on the quiz-link page alike
AttemptedStartRejected ==
    [][\A t \in Tabs :
         /\ \A typed \in TypedCodes, okQuiz \in BOOLEAN, okAttempt \in BOOLEAN :
               \A q \in Addressed(typed) :
                  (HandleJoinQuiz(t, typed, okQuiz, okAttempt)
                      /\ AttemptExists(q.id))
                  => /\ ~ tab'[t].c.mounted
                     /\ (okQuiz /\ Open(q)) =>
                            tab'[t].toast = "Already Attempted"
         /\ (HandleStartQuiz(t)
                /\ AttemptExists(The(tab[t].access.quiz).id))
            => /\ ~ tab'[t].c.mounted
               /\ (\E q \in quizzes : q.id = The(tab[t].access.quiz).id
                                        /\ Open(q))
                     => tab'[t].toast = "Already Attempted"]_vars

\* C12: the quiz-taking screen is mounted only by a start check at whose time
\* the quiz is active, the clock is within the quiz's window and the student
\* has no attempt at it; and a join of an active quiz whose start_time is one
\* hour ahead is answered with "Quiz Not Available" and a description naming
\* the start time, and the link page offers no start for it
MountedOnlyWhenAdmissible ==
    [][\A t \in Tabs :
         /\ (~ tab[t].c.mounted /\ tab'[t].c.mounted) =>
               \E q \in quizzes : /\ Some(q.id) = tab'[t].selectedQuizId
                                  /\ Open(q)
                                  /\ ~ AttemptExists(q.id)
         /\ \A typed \in TypedCodes, okAttempt \in BOOLEAN :
               \A q \in Addressed(typed) :
                  (HandleJoinQuiz(t, typed, TRUE, okAttempt)
                      /\ q.is_active
                      /\ q.start_time = Some(now + SecondsPerHour))
                  => /\ ~ tab'[t].c.mounted
                     /\ tab'[t].toast = "Quiz Not Available"
                     /\ tab'[t].description = q.start_time
         /\ (HandleStartQuiz(t) /\ tab'[t].c.mounted) =>
               The(tab[t].access.quiz).start_time # Some(now + SecondsPerHour)
      ]_vars

\* C13: when the lookups succeed, every rejection of a start names a
\* condition that holds at that time (the quiz inactive, not yet started,
\* ended, or already attempted), and "not found" is said only of a code that
\* addresses no quiz; on the dashboard's code entry, on the quiz-link page and
\* in joinQuizByCode
RejectionNamesItsCondition ==
    [][\A t \in Tabs :
         /\ \A typed \in TypedCodes :
               (HandleJoinQuiz(t, typed, TRUE, TRUE) /\ ~ tab'[t].c.mounted)
               => NamesItsCondition(tab'[t].toast, Addressed(typed))
         /\ \A typed \in TypedCodes :
               LET r == JoinQuizByCode(typed, Some(StudentId), TRUE, TRUE)
               IN  ~ r.success => NamesItsCondition(r.message, Addressed(typed))
         /\ (FetchQuizInfo(t, TRUE) /\ tab'[t].access.error # "none")
            => NamesItsCondition(tab'[t].access.error,
                                 Addressed(The(tab[t].access.quizCode)))
         /\ (HandleStartQuiz(t) /\ tab'[t].toast # tab[t].toast)
            => NamesItsCondition(tab'[t].toast,
                                 QuizById(The(tab[t].access.quiz).id))
      ]_vars

\* C14: from the dashboard the results view of an attempt is entered only
\* when at least 60 minutes have passed since the completed_at of the
\* attempt, as the dashboard's list and the store have it: a View Results
\* click before that leaves the dashboard shown and says "Results Not
\* Available", a click at 60 minutes or later opens the results of that
\* attempt
ResultsAfterTheHour ==
    [][\A t \in Tabs : \A a \in tab[t].attempts \cap quiz_attempts :
         ViewResults(t, a.id) =>
            IF now - The(a.completed_at) >= MinutesPerHour * SecondsPerMinute
            THEN /\ tab'[t].activeView = "results"
                 /\ tab'[t].selectedAttemptId = Some(a.id)
            ELSE /\ tab'[t].activeView = "dashboard"
                 /\ tab'[t].selectedAttemptId = None
                 /\ tab'[t].toast = "Results Not Available"]_vars

\* the results are on show in one tab, opened exactly 60 minutes after the
\* completion, and were refused in the other tab one second before
ResultsAfterTheHourWitness ==
    \E t, u \in Tabs : \E a \in quiz_attempts :
        /\ tab[t].activeView = "results"
        /\ tab[t].selectedAttemptId = Some(a.id)
        /\ now = The(a.completed_at) + MinutesPerHour * SecondsPerMinute
        /\ tab[u].activeView = "dashboard"
        /\ tab[u].toast = "Results Not Available"
        /\ tab[u].description = Some(1)

\* C15: UsernameSetup sends the update of the profile if and only if the
\* text is not empty, 3 to 20 characters long and matches ^[a-zA-Z0-9_-]+$;
\* the update the store accepts puts exactly that text into the student's
\* row; "ab" is rejected and "ab_12" is accepted; a rejected text leaves
\* the store as it is
UsernameWrittenIffValid ==
    [][\A t \in Tabs :
         /\ \A username \in Typed :
               HandleSubmit(t, username) =>
                  /\ (tab'[t].setup.pc = "update") <=> WellFormed(username)
                  /\ ~ WellFormed(username) =>
                        /\ UNCHANGED store
                        /\ tab'[t].setup = tab[t].setup
                        /\ tab'[t].toast \in
                              {"Invalid Username", "Username Too Short",
                               "Username Too Long", "Invalid Characters"}
         /\ HandleSubmit(t, <<"a", "b">>) =>
               tab'[t].toast = "Username Too Short"
         /\ HandleSubmit(t, <<"a", "b", "_", "1", "2">>) =>
               tab'[t].setup = [pc |-> "update",
                                username |-> <<"a", "b", "_", "1", "2">>]
         /\ \A ok \in BOOLEAN :
               UpdateUsername(t, ok) =>
                  /\ WellFormed(tab[t].setup.username)
                  /\ (ok /\ UsernameUnique(StudentId, tab[t].setup.username))
                     => UsernameOf(StudentId)' = Some(tab[t].setup.username)
                  /\ profiles' # profiles
                     => UsernameOf(StudentId)' = Some(tab[t].setup.username)
         /\ \A p \in profiles' :
               IsSome(p.username) => WellFormed(The(p.username))
      ]_vars

\* "ab_12" has been submitted and stored for the student, and the form has
\* given way to the dashboard
UsernameWrittenIffValidWitness ==
    \E t \in Tabs :
        /\ UsernameOf(StudentId) = Some(<<"a", "b", "_", "1", "2">>)
        /\ tab[t].profile = Some(ProfileById(StudentId))
        /\ tab[t].toast = "Username Set!"
        /\ ~ UsernameGate(tab[t].profile)

\* C16: no attempt is created for a student whose profile has no username:
\* every attempt's student has a username in the store, QuizTaking is
\* mounted only for such a student, the form stands in place of the
\* dashboard's join and of the link page's start until then, and a click
\* that reaches handleJoinQuiz or handleStartQuiz before mounts nothing
NoAttemptWithoutUsername ==
    [][/\ \A a \in quiz_attempts' : IsSome(UsernameOf(a.student_id)')
       /\ \A t \in Tabs :
             /\ tab'[t].c.mounted => IsSome(UsernameOf(StudentId)')
             /\ UsernameGate(tab[t].profile) =>
                   /\ ~ StartButton(tab[t])
                   /\ \A typed \in TypedCodes, okQuiz \in BOOLEAN,
                         okAttempt \in BOOLEAN :
                         ~ HandleJoinQuiz(t, typed, okQuiz, okAttempt)
             /\ ~ IsSome(UsernameOf(StudentId)) =>
                   /\ HandleStartQuiz(t) => UNCHANGED vars
                   /\ \A typed \in TypedCodes, okQuiz \in BOOLEAN,
                         okAttempt \in BOOLEAN :
                         ~ HandleJoinQuiz(t, typed, okQuiz, okAttempt)
      ]_vars

\* the student has set a username in one tab and started an attempt there,
\* while the other tab still shows the form
NoAttemptWithoutUsernameWitness ==
    \E t, u \in Tabs :
        /\ \E a \in quiz_attempts : a.student_id = StudentId
        /\ IsSome(UsernameOf(StudentId))
        /\ tab[t].c.mounted /\ IsSome(tab[t].c.attemptId)
        /\ UsernameGate(tab[u].profile)

\* C17: every stored quiz has, from its insert on, a quiz_code of exactly 6
\* characters of A-Z and 0-9 that the store generated
QuizCodeGenerated ==
    \A q \in quizzes :
        /\ Len(q.quiz_code) = QuizCodeLength
        /\ \A i \in DOMAIN q.quiz_code : q.quiz_code[i] \in CodeAlphabet
        /\ q.quiz_code \in GeneratedCodes

\* C18: no two quizzes have the same quiz_code, and no step changes the
\* quiz_code of a quiz that exists
QuizCodeUniqueAndFixed ==
    [][/\ \A q1, q2 \in quizzes' :
             q1.quiz_code = q2.quiz_code => q1.id = q2.id
       /\ \A q1 \in quizzes, q2 \in quizzes' :
             q1.id = q2.id => q2.quiz_code = q1.quiz_code]_vars

\* C19: in every state each question and each attempt refers to a stored
\* quiz and each student answer to a stored attempt and a stored question:
\* once the teacher has deleted a quiz nothing that refers to it remains or
\* comes back, whatever the student's controller does meanwhile
NothingRefersToADeletedQuiz ==
    /\ \A q \in questions : QuizById(q.quiz_id) # {}
    /\ \A a \in quiz_attempts : QuizById(a.quiz_id) # {}
    /\ \A r \in student_answers :
          /\ \E a \in quiz_attempts : a.id = r.attempt_id
          /\ \E q \in questions : q.id = r.question_id

\* the quiz has been deleted while a Submit of its attempt is in flight
NothingRefersToADeletedQuizWitness ==
    /\ quizzes = {}
    /\ \E t \in Tabs :
          /\ tab[t].c.mounted
          /\ IsSome(tab[t].c.attemptId)
          /\ \E i \in 1..Len(tab[t].c.runs) :
                tab[t].c.runs[i].pc \in {"fetch", "patch", "update"}

\* C20: when the quiz fetch, the question fetch or the attempt insert of
\* initializeQuiz fails (the insert also because the student has an attempt
\* at the quiz), the controller has started no countdown and no Submit, is
\* unmounted with the toast "Failed to load quiz" and its host's screen is
\* shown again, so that no timer, effect or click of it can follow; the
\* store is as it was
FailedInitializeStartsNothing ==
    [][\A t \in Tabs :
         LET c == tab[t].c
             quizId == The(tab[t].selectedQuizId)
         IN  (\/ InitFetchQuiz(t, FALSE)
              \/ InitFetchQuestions(t, FALSE)
              \/ InitInsertAttempt(t, FALSE)
              \/ /\ InitInsertAttempt(t, TRUE)
                 /\ \E a \in quiz_attempts :
                       a.quiz_id = quizId /\ a.student_id = StudentId)
             => /\ c.timeLeft = 0 /\ c.quiz = None /\ c.effect = None
                /\ c.timerCalls = 0 /\ c.started = 0 /\ c.runs = << >>
                /\ tab'[t].c = Unmounted
                /\ tab'[t].toast = "Failed to load quiz"
                /\ tab'[t].activeView \in {"dashboard", "info"}
                /\ UNCHANGED store]_vars

\* initializeQuiz has failed in a tab while the student has an attempt at
\* the quiz: the dashboard is shown with the toast
FailedInitializeStartsNothingWitness ==
    \E t \in Tabs :
        /\ tab[t].toast = "Failed to load quiz"
        /\ tab[t].activeView = "dashboard"
        /\ tab[t].c = Unmounted
        /\ \E a \in quiz_attempts : a.student_id = StudentId

\* C21 as stated: after a Submit has failed, the countdown invokes no Submit
\* on that attempt; only the student's click does
NoSubmitAfterFailureButByClick ==
    [][\A t \in Tabs :
         (SubmitHasFailed(tab[t]) /\ tab'[t].c.mounted)
         => /\ tab'[t].c.timerCalls = tab[t].c.timerCalls
            /\ tab'[t].c.started > tab[t].c.started => ClickSubmit(t)]_vars

\* C21, amended: a failed Submit is not retried.  After a failure a Submit
\* starts only by the student's click or by the countdown's single
\* invocation when it reaches zero; a countdown that has made its invocation
\* makes no other, so a failed Submit of the countdown is followed by clicks
\* alone, and the failure itself leaves no effect pending
NoAutomaticRetry ==
    [][\A t \in Tabs :
         LET c == tab[t].c
         IN  (SubmitHasFailed(tab[t]) /\ tab'[t].c.mounted)
             => /\ tab'[t].c.timerCalls <= 1
                /\ tab'[t].c.timerCalls > c.timerCalls
                      => /\ c.timerCalls = 0
                         /\ tab'[t].c.timeLeft = 0
                /\ tab'[t].c.started > c.started
                      => \/ ClickSubmit(t)
                         \/ tab'[t].c.timerCalls > c.timerCalls
                /\ c.timerCalls = 1 => tab'[t].c.effect = None]_vars

\* the Submit the countdown invoked at zero has failed; the controller is
\* still mounted at zero with no Submit in flight and no effect pending
NoAutomaticRetryWitness ==
    \E t \in Tabs :
        /\ SubmitHasFailed(tab[t])
        /\ tab[t].c.timeLeft = 0
        /\ tab[t].c.timerCalls = 1
        /\ tab[t].c.timerStarted = 1
        /\ tab[t].c.runs = << >>
        /\ tab[t].c.effect = None
        /\ ~ tab[t].c.submitting

\* C22: a completed attempt is never written again: once is_completed is
\* true the row, with its score, completed_at and time_taken_minutes, stays
\* as it is in every later step
CompletedAttemptIsFinal ==
    [][\A a \in quiz_attempts : \A b \in quiz_attempts' :
         (a.id = b.id /\ a.is_completed) => b = a]_vars

LeftAttemptStaysOpen ==
    [][\A a \in quiz_attempts :
         (/\ ~ a.is_completed
          /\ \A t \in Tabs : ~ (/\ tab[t].c.mounted
                                 /\ tab[t].c.attemptId = Some(a.id)))
         => /\ \A b \in quiz_attempts' : b.id = a.id => b = a
            /\ AnswersOf(a.id)' = AnswersOf(a.id)
            /\ \A t \in Tabs, typed \in TypedCodes, okQuiz \in BOOLEAN,
                  okAttempt \in BOOLEAN :
                  HandleJoinQuiz(t, typed, okQuiz, okAttempt)
                     => ~ tab'[t].c.mounted]_vars

\* C25: every Submit is invoked after Initialize has succeeded: a controller
\* in which the countdown effect has called handleSubmitQuiz, or a Submit has
\* started, holds the quiz, the attempt id and the question list Initialize
\* loaded; every execution of handleSubmitQuiz, and every countdown effect
\* still to run, was created by a render that held them.
SubmitOnlyAfterInitialize ==
    \A t \in Tabs :
        LET c == tab[t].c
        IN  /\ (c.started > 0 \/ c.timerCalls > 0 \/ IsSome(c.effect))
                  => /\ c.ipc = "done" /\ IsSome(c.quiz) /\ IsSome(c.attemptId)
                     /\ c.questions = c.questionsData
            /\ \A i \in 1..Len(c.runs) :
                  /\ c.runs[i].pc # "thrown"
                  /\ c.runs[i].attemptId = c.attemptId
                  /\ c.runs[i].length = Len(c.questionsData)
            /\ IsSome(c.effect)
                  => /\ The(c.effect).attemptId = c.attemptId
                     /\ The(c.effect).questions = c.questionsData

\* a quiz of duration 0: the countdown is at zero when Initialize commits, and
\* the Submit its effect started holds the attempt Initialize stored
SubmitOnlyAfterInitializeWitness ==
    \E t \in Tabs :
        LET c == tab[t].c
        IN  /\ c.mounted /\ IsSome(c.quiz)
            /\ The(c.quiz).duration_minutes = 0
            /\ c.timerStarted = 1 /\ Len(c.runs) = 1
            /\ c.runs[1].attemptId = c.attemptId
            /\ AttemptById(The(c.attemptId)) # {}

\* C26: a saveQuiz that fails leaves no quiz without its questions: every
\* stored quiz, but the one a saveQuiz still running has just inserted, has
\* exactly total_questions questions.
EveryQuizHasItsQuestions ==
    \A q \in quizzes :
        teacher.quizId # Some(q.id)
           => Cardinality(QuestionsOf(q.id)) = q.total_questions

\* C27: a join whose read of the existing attempt fails is abandoned: when
\* handleJoinQuiz has found the quiz open and its attempt read returns an
\* error, the student is not admitted to the controller.
FailedAttemptReadAbandonsJoin ==
    [][\A t \in Tabs, typed \in TypedCodes :
         (/\ HandleJoinQuiz(t, typed, TRUE, FALSE)
          /\ JoinDecision(typed, TRUE, TRUE).reason
                 \in {"admitted", "Already Attempted"})
         => ~ tab'[t].c.mounted]_vars

\* C28: the four admission decisions agree: on a quiz-link page that holds
\* the stored quiz and knows whether the student's attempt exists, canStart
\* as computed at the current time, handleStartQuiz, handleJoinQuiz for the
\* quiz's code and joinQuizByCode for that code and student all admit, or
\* all refuse.
AdmissionDecisionsAgree ==
    \A t \in Tabs : \A typed \in TypedCodes :
        LET d == tab[t]
        IN  (/\ d.activeView = "info" /\ ~ d.access.loading
             /\ d.access.error = "none"
             /\ IsSome(d.access.quiz) /\ IsSome(d.profile)
             /\ The(d.access.quiz) \in quizzes
             /\ The(d.access.quiz).quiz_code = ToUpperCase(typed)
             /\ IsSome(d.access.existingAttempt)
                    <=> AttemptExists(The(d.access.quiz).id))
            => /\ CanStart(d.access, now)
                     <=> IsSome(StartDecision(d).quizId)
               /\ IsSome(StartDecision(d).quizId)
                     <=> IsSome(JoinDecision(typed, TRUE, TRUE).quizId)
               /\ IsSome(JoinDecision(typed, TRUE, TRUE).quizId)
                     <=> JoinQuizByCode(typed, Some(StudentId),
                                        TRUE, TRUE).success

\* C29: handleAnswerChange replaces the in-memory answer of the current
\* question and nothing else (no store write, the countdown and the question
\* cursor as they were, the other answers kept), and an execution of
\* handleSubmitQuiz that starts works on the answers recorded by then.
SubmitWritesRecordedAnswers ==
    [][\A t \in Tabs :
         LET c == tab[t].c
             c2 == tab'[t].c
         IN  /\ \A answer \in Inputs :
                   HandleAnswerChange(t, answer)
                      => LET questionId ==
                                 c.questions[c.currentQuestionIndex + 1].id
                         IN  /\ store' = store
                             /\ c2.timeLeft = c.timeLeft
                             /\ c2.currentQuestionIndex = c.currentQuestionIndex
                             /\ c2.answers =
                                   { a \in c.answers :
                                        a.question_id # questionId }
                                   \cup {[question_id |-> questionId,
                                          answer |-> answer]}
             /\ (c.mounted /\ c2.mounted /\ c2.started > c.started)
                   => c2.runs[Len(c2.runs)].answers = c2.answers]_vars

\* C30: from a successful Initialize until a Submit starts the controller
\* holds no correct answer: each question it holds is exactly the id, the
\* type and the position of a stored question, the quiz it holds is the
\* quiz row as read, and its answers are what the student entered; so the
\* controller's state is the same for quizzes that differ only in their
\* correct answers.
ControllerHoldsNoCorrectAnswer ==
    \A t \in Tabs :
        LET c == tab[t].c
        IN  (c.mounted /\ c.ipc = "done" /\ c.started = 0)
            => /\ \A i \in 1..Len(c.questions) :
                     \E q \in questions :
                        c.questions[i] =
                            [id |-> q.id, question_type |-> q.question_type,
                             order_index |-> q.order_index]
               /\ c.questionsData = c.questions
               /\ "correct_answer" \notin DOMAIN The(c.quiz)
               /\ \A a \in c.answers :
                     /\ DOMAIN a = {"question_id", "answer"}
                     /\ a.answer \in Inputs
               /\ c.runs = << >>

\* the student has answered a question of a quiz whose stored questions have
\* correct answers, and no Submit has started
ControllerHoldsNoCorrectAnswerWitness ==
    \E t \in Tabs :
        LET c == tab[t].c
        IN  /\ c.mounted /\ c.ipc = "done" /\ c.started = 0
            /\ c.answers # {} /\ Len(c.questions) > 0
            /\ \A i \in 1..Len(c.questions) :
                  \E q \in questions : /\ q.id = c.questions[i].id
                                       /\ q.correct_answer # << >>
====
